---- MODULE Spec2Model ----
(***************************************************************************)
(* Model of src/src/main.ts: one invocation of main(), in deploy mode or   *)
(* in deactivate mode, against a control-plane client whose answers are    *)
(* inputs.  JavaScript objects are records; an unset (undefined or null)   *)
(* property is a key that the record does not have.  Each action is one    *)
(* continuation of the async function: the code that runs between the      *)
(* settling of one awaited call and the issuing of the next one, the catch *)
(* and finally blocks included when the continuation ends the run.         *)
(***************************************************************************)
EXTENDS Integers, Sequences, FiniteSets, TLC

\* liveApp is the container app as the control plane returned it; currentAppProperty
\* is main's object for it, whose traffic entries the filter callback rewrites.
VARIABLES pc, taskParams, processEnv, prefix, liveApp, currentAppProperty, traffics,
          containerAppEnvelope, revision, log

\* For several invocations on one container app: resource is the container app
\* as the control plane holds it now and resourceAtStart as it held it before
\* the invocations; invocations gives each invocation its parameters, its
\* position and its objects; rebalanced tells that the traffic of the resource
\* was set from outside.
VARIABLES resource, resourceAtStart, invocations, rebalanced

invocation == <<pc, taskParams, processEnv, prefix, liveApp, currentAppProperty, traffics,
                containerAppEnvelope, revision, log>>

shared == <<resource, resourceAtStart, invocations, rebalanced>>

vars == <<invocation, shared>>

----------------------------------------------------------------------------
(* Bounds of the model and constants of the program *)

MaxTraffic == 2

MaxTrafficFair == 1

MaxInvocations == 2

MaxTrafficLive == 1

MAX_REVISION_NAME_LENGTH == 63

----------------------------------------------------------------------------
(* Values *)

Has(o, f) == f \in DOMAIN o

Undefined == <<>>

\* what getRevision answers when there is no such revision
Null == [null |-> TRUE]

ShortAppName == "app"

\* 54 characters: with "--" and a suffix of 7 the revision name has 63
LongAppName == "app-with-a-very-long-container-app-name-of-54-chars-xx"

ShortSuffix == "abc1234"

LongSuffix == "abc12345"

ImageName == "registry.example.com/app:abc1234"

PreviousUserAgent == "previous-agent"

RevisionFqdn == "app-abc1234.example.com"

\* The errors of the run; the code throws Error objects that differ by message.
InvalidConfiguration == "InvalidConfiguration"

UnsafeDeactivation == "UnsafeDeactivation"

DeactivationNotConfirmed == "DeactivationNotConfirmed"

DeploymentFailed == "DeploymentFailed"

TypeError == "TypeError"

UpstreamError == "UpstreamError"

\* the long suffix goes with the long name only, which it takes from 63 to 64 characters
TaskParametersSet ==
    {tp \in [ resourceGroup          : {"rg"},
              containerAppName       : {ShortAppName, LongAppName},
              revisionNameSuffix     : {ShortSuffix, LongSuffix},
              imageName              : {ImageName},
              deactivateRevisionMode : BOOLEAN ] :
        tp.revisionNameSuffix = LongSuffix => tp.containerAppName = LongAppName}

ComposeRevisionName(tp) == tp.containerAppName \o "--" \o tp.revisionNameSuffix

LatestRevisionNameOf(tp) == tp.containerAppName \o "--old1"

----------------------------------------------------------------------------
(* What the control plane may answer *)

OptName(tp) ==
    {Undefined} \cup
        {[revisionName |-> n] : n \in {LatestRevisionNameOf(tp), ComposeRevisionName(tp)}}

OptLatest == {[latestRevision |-> b] : b \in BOOLEAN}

OptWeight == {Undefined} \cup {[weight |-> w] : w \in {0, 100}}

\* TrafficWeight: revisionName?, latestRevision?, weight?
TrafficWeights(tp) ==
    {n @@ l @@ w : n \in OptName(tp), l \in OptLatest, w \in OptWeight}

\* the lists of at most n of the given entries
ListsUpTo(entries, n) == UNION {[1..k -> entries] : k \in 0..n}

TrafficLists(tp) == ListsUpTo(TrafficWeights(tp), MaxTraffic)

\* ingress: external?, traffic?, targetPort, customDomains
IngressesWith(lists) ==
    {e @@ t @@ [targetPort |-> 80, customDomains |-> <<>>] :
        e \in {Undefined} \cup {[external |-> b] : b \in BOOLEAN},
        t \in {Undefined} \cup {[traffic |-> l] : l \in lists}}

Ingresses(tp) == IngressesWith(TrafficLists(tp))

\* configuration: ingress?, dapr
ConfigurationsWith(ingresses) ==
    {i @@ [dapr |-> [enabled |-> FALSE]] :
        i \in {Undefined} \cup {[ingress |-> g] : g \in ingresses}}

Configurations(tp) == ConfigurationsWith(Ingresses(tp))

\* ContainerApp, as returned by containerApps.get
ContainerAppsWith(configurations, tp) ==
    [ configuration        : configurations,
      latestRevisionName   : {LatestRevisionNameOf(tp)},
      location             : {"eastus"},
      managedEnvironmentId : {"env-1"},
      template             : {[scale |-> [minReplicas |-> 0, maxReplicas |-> 10]]} ]

ContainerApps(tp) == ContainerAppsWith(Configurations(tp), tp)

\* Revision, as returned by containerAppsRevisions.getRevision
Revisions(name) ==
    {[name |-> name] @@ a @@ f :
        a \in {Undefined} \cup {[active |-> b] : b \in BOOLEAN},
        f \in {Undefined} \cup {[fqdn |-> d] : d \in {"", RevisionFqdn}}}

GetRevisionResults(name) == {Null} \cup Revisions(name)

----------------------------------------------------------------------------
(* main: the pure parts *)

RepositoryHash == "sha256-of-repository"

\* prefix: the marker as found when the module is loaded, "" when unset or empty
PrefixOf(env) ==
    IF Has(env, "AZURE_HTTP_USER_AGENT") /\ env.AZURE_HTTP_USER_AGENT # ""
    THEN env.AZURE_HTTP_USER_AGENT
    ELSE ""

UserAgentString(pfx) ==
    (IF pfx # "" THEN pfx \o "+" ELSE "") \o "GITHUBACTIONS_ACAReviewApps_" \o RepositoryHash

NameTooLong_OffByOne(revisionName) == Len(revisionName) >= MAX_REVISION_NAME_LENGTH

NameTooLong(revisionName) == Len(revisionName) > MAX_REVISION_NAME_LENGTH

\* entries of weight 0 are kept
Carried_KeepsZero(traffic) == Has(traffic, "weight")

\* the filter callback returns true: weight is set and is not 0
Carried(traffic) == Has(traffic, "weight") /\ traffic.weight # 0

IsLatestAlias(traffic) == Has(traffic, "latestRevision") /\ traffic.latestRevision

\* the flag is cleared and the name is left as it was
Pinned_FlagOnly(traffic, latestRevisionName) ==
    IF IsLatestAlias(traffic) THEN [traffic EXCEPT !.latestRevision = FALSE] ELSE traffic

\* the filter callback's writes to an entry it keeps
Pinned(traffic, latestRevisionName) ==
    IF IsLatestAlias(traffic)
    THEN ("revisionName" :> latestRevisionName) @@ [traffic EXCEPT !.latestRevision = FALSE]
    ELSE traffic

\* the live traffic list as the filter callback leaves it (entries are rewritten in place)
FilteredInPlace(live, latestRevisionName) ==
    [i \in 1..Len(live) |->
        IF Carried(live[i]) THEN Pinned(live[i], latestRevisionName) ELSE live[i]]

NewRevisionEntry(revisionName) ==
    [revisionName |-> revisionName, weight |-> 0, latestRevision |-> FALSE]

\* the callback rewrites an alias entry in place and then returns false for it
Reconcile_AliasDropped(live, latestRevisionName, revisionName) ==
    Append(SelectSeq(live, LAMBDA t : Carried(t) /\ ~IsLatestAlias(t)),
           NewRevisionEntry(revisionName))

\* traffics: the filtered list with the new revision pushed
Reconcile(live, latestRevisionName, revisionName) ==
    Append(SelectSeq(FilteredInPlace(live, latestRevisionName), Carried),
           NewRevisionEntry(revisionName))

\* configuration!.ingress!.traffic! can be dereferenced
HasTrafficList(app) ==
    Has(app.configuration, "ingress") /\ Has(app.configuration.ingress, "traffic")

IngressConfig(app, trafficList) ==
    LET ingress == app.configuration.ingress
    IN  (IF Has(ingress, "external") THEN [external |-> ingress.external] ELSE Undefined)
        @@ [targetPort    |-> ingress.targetPort,
            traffic       |-> trafficList,
            customDomains |-> ingress.customDomains]

\* ingressConfig.external == false || ingressConfig.external == undefined
IngressDeleted(ingressConfig) ==
    \/ (Has(ingressConfig, "external") /\ ingressConfig.external = FALSE)
    \/ ~Has(ingressConfig, "external")

ScaleConfig(app) ==
    [maxReplicas |-> app.template.scale.maxReplicas,
     minReplicas |-> app.template.scale.minReplicas,
     rules |-> <<[name |-> "httpscalingrule",
                  custom |-> [type |-> "http",
                              metadata |-> [concurrentRequests |-> "50"]]]>>]

NetworkConfig(app, ingressConfig) ==
    (IF IngressDeleted(ingressConfig) THEN Undefined ELSE [ingress |-> ingressConfig])
    @@ [dapr |-> app.configuration.dapr, activeRevisionsMode |-> "Multiple"]

\* revisionSuffix is given the composed revision name
ContainerAppEnvelope_FullName(app, trafficList, tp) ==
    [configuration        |-> NetworkConfig(app, IngressConfig(app, trafficList)),
     location             |-> app.location,
     managedEnvironmentId |-> app.managedEnvironmentId,
     template |-> [containers |-> <<[name |-> tp.containerAppName, image |-> tp.imageName]>>,
                   scale |-> ScaleConfig(app),
                   revisionSuffix |-> ComposeRevisionName(tp)]]

ContainerAppEnvelope(app, trafficList, tp) ==
    [configuration        |-> NetworkConfig(app, IngressConfig(app, trafficList)),
     location             |-> app.location,
     managedEnvironmentId |-> app.managedEnvironmentId,
     template |-> [containers |-> <<[name |-> tp.containerAppName, image |-> tp.imageName]>>,
                   scale |-> ScaleConfig(app),
                   revisionSuffix |-> tp.revisionNameSuffix]]

\* the endpoint is emitted whether or not the ingress is external
EmitsAppUrl_AnyIngress(app, addedRevision) ==
    Has(addedRevision, "fqdn") /\ addedRevision.fqdn # ""

\* ingressConfig.external == true && addedRevision.fqdn
EmitsAppUrl(app, addedRevision) ==
    /\ Has(app.configuration.ingress, "external")
    /\ app.configuration.ingress.external = TRUE
    /\ Has(addedRevision, "fqdn")
    /\ addedRevision.fqdn # ""

AppUrl(addedRevision) == "https://" \o addedRevision.fqdn \o "/"

----------------------------------------------------------------------------
(* deactivateRevision: the pure parts *)

\* currentAppProperty.configuration?.ingress?.traffic || []
TrafficOrEmpty(app) == IF HasTrafficList(app) THEN app.configuration.ingress.traffic ELSE <<>>

NamesRevision(r, revisionName) == Has(r, "revisionName") /\ r.revisionName = revisionName

TargetRevisions(traffic, revisionName) ==
    SelectSeq(traffic, LAMBDA r : NamesRevision(r, revisionName))

\* reduce((prev, curr) => prev + curr.weight, 0): NaN as soon as one weight is unset
ReduceIsNaN(targetRevisions) ==
    \E i \in 1..Len(targetRevisions) : ~Has(targetRevisions[i], "weight")

RECURSIVE ReduceWeights(_)
ReduceWeights(targetRevisions) ==
    IF targetRevisions = <<>> THEN 0
    ELSE ReduceWeights(SubSeq(targetRevisions, 1, Len(targetRevisions) - 1))
         + targetRevisions[Len(targetRevisions)].weight

\* the check looks at the first matching entry only
CarriesTraffic_FirstOnly(targetRevisions) ==
    /\ Len(targetRevisions) > 0
    /\ (~Has(targetRevisions[1], "weight") \/ targetRevisions[1].weight # 0)

\* targetRevisions.length > 0 && reduce(...) !== 0  (NaN !== 0 is true)
CarriesTraffic(targetRevisions) ==
    /\ Len(targetRevisions) > 0
    /\ (ReduceIsNaN(targetRevisions) \/ ReduceWeights(targetRevisions) # 0)

\* the answer of the read is not looked at
StillActive_Ignored(deactiveRevision) == FALSE

\* if (deactiveRevision.active)
StillActive(deactiveRevision) == Has(deactiveRevision, "active") /\ deactiveRevision.active

----------------------------------------------------------------------------
(* The effects of a run, in the order in which they happen *)

ExportVariable(value) ==
    [op |-> "exportVariable", name |-> "AZURE_HTTP_USER_AGENT", value |-> value]

SetFailed(error) == [op |-> "setFailed", error |-> error]

SetOutput(value) == [op |-> "setOutput", name |-> "app-url", value |-> value]

GetAppCall(tp) ==
    [op |-> "getApp", resourceGroup |-> tp.resourceGroup, name |-> tp.containerAppName]

UpdateAppAndWaitCall(tp, envelope) ==
    [op |-> "updateAppAndWait", resourceGroup |-> tp.resourceGroup,
     name |-> tp.containerAppName, envelope |-> envelope]

GetRevisionCall(tp, revisionName) ==
    [op |-> "getRevision", resourceGroup |-> tp.resourceGroup,
     name |-> tp.containerAppName, revisionName |-> revisionName]

DeactivateRevisionCall(tp, revisionName) ==
    [op |-> "deactivateRevision", resourceGroup |-> tp.resourceGroup,
     name |-> tp.containerAppName, revisionName |-> revisionName]

\* the finally block is missing
Finish_NoReset(events) ==
    /\ log' = log \o events
    /\ UNCHANGED processEnv
    /\ pc' = "done"

\* the end of the try block: the events of the last continuation, then finally
Finish(events) ==
    /\ log' = log \o events \o <<ExportVariable(prefix)>>
    /\ processEnv' = [AZURE_HTTP_USER_AGENT |-> prefix]
    /\ pc' = "done"

\* the failure is signalled where it is thrown and again in the catch block
Throw_SignalledTwice(error) == Finish(<<SetFailed(error), SetFailed(error)>>)

\* throw: the catch block signals the failure, then finally
Throw(error) == Finish(<<SetFailed(error)>>)

----------------------------------------------------------------------------
(* The state machine *)

Init ==
    /\ pc = "main"
    /\ taskParams \in TaskParametersSet
    /\ processEnv \in {Undefined, [AZURE_HTTP_USER_AGENT |-> PreviousUserAgent]}
    /\ prefix = PrefixOf(processEnv)
    /\ liveApp = Undefined
    /\ currentAppProperty = Undefined
    /\ traffics = Undefined
    /\ containerAppEnvelope = Undefined
    /\ revision = Undefined
    /\ log = <<>>
    /\ resource = Undefined
    /\ resourceAtStart = Undefined
    /\ invocations = <<>>
    /\ rebalanced = FALSE

\* main, up to the await of getAuthorizer
Main ==
    /\ pc = "main"
    /\ processEnv' = [AZURE_HTTP_USER_AGENT |-> UserAgentString(prefix)]
    /\ log' = Append(log, ExportVariable(UserAgentString(prefix)))
    /\ pc' = "getAuthorizer"
    /\ UNCHANGED <<taskParams, prefix, liveApp, currentAppProperty, traffics,
                   containerAppEnvelope, revision>>
    /\ UNCHANGED shared

\* getAuthorizer resolved: the length check, then containerApps.get is issued
Validate ==
    /\ pc = "getAuthorizer"
    /\ IF NameTooLong(ComposeRevisionName(taskParams))
       THEN Throw(InvalidConfiguration)
       ELSE /\ log' = Append(log, GetAppCall(taskParams))
            /\ pc' = "getApp"
            /\ UNCHANGED processEnv
    /\ UNCHANGED <<taskParams, prefix, liveApp, currentAppProperty, traffics,
                   containerAppEnvelope, revision>>
    /\ UNCHANGED shared

\* containerApps.get resolved in deactivate mode: deactivateRevision up to its first await
Deactivate(app) ==
    LET revisionName == ComposeRevisionName(taskParams)
    IN  /\ currentAppProperty' = app
        /\ IF CarriesTraffic(TargetRevisions(TrafficOrEmpty(app), revisionName))
           THEN Throw(UnsafeDeactivation)
           ELSE /\ log' = Append(log, DeactivateRevisionCall(taskParams, revisionName))
                /\ pc' = "deactivateRevision"
                /\ UNCHANGED processEnv
        /\ UNCHANGED <<traffics, containerAppEnvelope>>

\* containerApps.get resolved in deploy mode: reconcile, build the envelope, submit it
Deploy(app) ==
    LET revisionName == ComposeRevisionName(taskParams)
    IN  IF ~HasTrafficList(app)
        THEN /\ currentAppProperty' = app
             /\ Throw(TypeError)
             /\ UNCHANGED <<traffics, containerAppEnvelope>>
        ELSE LET live == app.configuration.ingress.traffic
                 reconciled == Reconcile(live, app.latestRevisionName, revisionName)
                 envelope == ContainerAppEnvelope(app, reconciled, taskParams)
             IN  /\ currentAppProperty' =
                        [app EXCEPT !.configuration.ingress.traffic =
                                        FilteredInPlace(live, app.latestRevisionName)]
                 /\ traffics' = reconciled
                 /\ containerAppEnvelope' = envelope
                 /\ log' = Append(log, UpdateAppAndWaitCall(taskParams, envelope))
                 /\ pc' = "updateAppAndWait"
                 /\ UNCHANGED processEnv

\* the mode flag is not looked at
GetAppResolves_ModeIgnored ==
    /\ pc = "getApp"
    /\ \E app \in ContainerApps(taskParams) :
          /\ liveApp' = app
          /\ Deploy(app)
    /\ UNCHANGED <<taskParams, prefix, revision>>
    /\ UNCHANGED shared

\* containerApps.get resolved with one of the given container apps
GetAppAnswers(apps) ==
    /\ pc = "getApp"
    /\ \E app \in apps :
          /\ liveApp' = app
          /\ IF taskParams.deactivateRevisionMode THEN Deactivate(app) ELSE Deploy(app)
    /\ UNCHANGED <<taskParams, prefix, revision>>
    /\ UNCHANGED shared

GetAppResolves == GetAppAnswers(ContainerApps(taskParams))

\* beginUpdateAndWait resolved: the new revision is read
UpdateResolves ==
    /\ pc = "updateAppAndWait"
    /\ log' = Append(log, GetRevisionCall(taskParams, ComposeRevisionName(taskParams)))
    /\ pc' = "getAddedRevision"
    /\ UNCHANGED <<taskParams, processEnv, prefix, liveApp, currentAppProperty, traffics,
                   containerAppEnvelope, revision>>
    /\ UNCHANGED shared

\* getRevision resolved in deploy mode: the existence check and the output
AddedRevisionResolves ==
    /\ pc = "getAddedRevision"
    /\ \E result \in GetRevisionResults(ComposeRevisionName(taskParams)) :
          /\ revision' = result
          /\ IF result = Null
             THEN Throw(DeploymentFailed)
             ELSE IF EmitsAppUrl(currentAppProperty, result)
                  THEN Finish(<<SetOutput(AppUrl(result))>>)
                  ELSE Finish(<<>>)
    /\ UNCHANGED <<taskParams, prefix, liveApp, currentAppProperty, traffics,
                   containerAppEnvelope>>
    /\ UNCHANGED shared

\* deactivateRevision of the client resolved: the revision is read back
DeactivateResolves ==
    /\ pc = "deactivateRevision"
    /\ log' = Append(log, GetRevisionCall(taskParams, ComposeRevisionName(taskParams)))
    /\ pc' = "getDeactiveRevision"
    /\ UNCHANGED <<taskParams, processEnv, prefix, liveApp, currentAppProperty, traffics,
                   containerAppEnvelope, revision>>
    /\ UNCHANGED shared

\* a revision still active is read again until it is not
DeactiveRevisionResolves_Polls ==
    /\ pc = "getDeactiveRevision"
    /\ \E result \in GetRevisionResults(ComposeRevisionName(taskParams)) :
          /\ revision' = result
          /\ IF result = Null
             THEN Throw(TypeError)
             ELSE IF StillActive(result)
                  THEN /\ log' = Append(log, GetRevisionCall(taskParams,
                                                ComposeRevisionName(taskParams)))
                       /\ UNCHANGED <<pc, processEnv>>
                  ELSE Finish(<<>>)
    /\ UNCHANGED <<taskParams, prefix, liveApp, currentAppProperty, traffics,
                   containerAppEnvelope>>
    /\ UNCHANGED shared

\* getRevision resolved in deactivate mode: the check of the active flag
DeactiveRevisionResolves ==
    /\ pc = "getDeactiveRevision"
    /\ \E result \in GetRevisionResults(ComposeRevisionName(taskParams)) :
          /\ revision' = result
          /\ IF result = Null
             THEN Throw(TypeError)
             ELSE IF StillActive(result)
                  THEN Throw(DeactivationNotConfirmed)
                  ELSE Finish(<<>>)
    /\ UNCHANGED <<taskParams, prefix, liveApp, currentAppProperty, traffics,
                   containerAppEnvelope>>
    /\ UNCHANGED shared

\* the awaited call rejects: the error goes to the catch block unchanged
Rejects ==
    /\ pc \in {"getAuthorizer", "getApp", "updateAppAndWait", "getAddedRevision",
               "deactivateRevision", "getDeactiveRevision"}
    /\ Throw(UpstreamError)
    /\ UNCHANGED <<taskParams, prefix, liveApp, currentAppProperty, traffics,
                   containerAppEnvelope, revision>>
    /\ UNCHANGED shared

Next ==
    \/ Main
    \/ Validate
    \/ GetAppResolves
    \/ UpdateResolves
    \/ AddedRevisionResolves
    \/ DeactivateResolves
    \/ DeactiveRevisionResolves
    \/ Rejects

Spec == Init /\ [][Next]_vars

----------------------------------------------------------------------------
(* The same run with every awaited call settling: each await of main either   *)
(* resolves or rejects in the end.  The answers of getApp are those with at   *)
(* most MaxTrafficFair traffic entries and the name is the long one, of 63 or *)
(* of 64 characters with the suffix.                                          *)

FairContainerApps(tp) ==
    ContainerAppsWith(
        ConfigurationsWith(IngressesWith(ListsUpTo(TrafficWeights(tp), MaxTrafficFair))),
        tp)

FairGetAppResolves == GetAppAnswers(FairContainerApps(taskParams))

FairInit == Init /\ taskParams.containerAppName = LongAppName

FairNext ==
    \/ Main
    \/ Validate
    \/ FairGetAppResolves
    \/ UpdateResolves
    \/ AddedRevisionResolves
    \/ DeactivateResolves
    \/ DeactiveRevisionResolves
    \/ Rejects

FairSpec == FairInit /\ [][FairNext]_vars /\ WF_vars(FairNext)

----------------------------------------------------------------------------
(* Several invocations on one container app.  The control plane holds the     *)
(* container app; containerApps.get answers with it as it is when the call is *)
(* served, and the continuation of main runs later, on that answer.  An       *)
(* update creates the revision named by the parent and the suffix of the      *)
(* envelope, makes it the latest one and puts the ingress of the envelope in  *)
(* place of the one held; when the envelope has no ingress, the one held is   *)
(* either left or removed.  Name check, authorizer and read-back are left     *)
(* out: they touch nothing that the invocations share.                        *)

Suffixes == <<"abc1234", "bcd2345", "cde3456">>

OldSuffix == "old0"

Invocations == 1..MaxInvocations

DeployParameters(r) ==
    [resourceGroup |-> "rg", containerAppName |-> ShortAppName,
     revisionNameSuffix |-> Suffixes[r], imageName |-> ImageName,
     deactivateRevisionMode |-> FALSE]

DeactivateParameters ==
    [resourceGroup |-> "rg", containerAppName |-> ShortAppName,
     revisionNameSuffix |-> OldSuffix, imageName |-> ImageName,
     deactivateRevisionMode |-> TRUE]

\* an entry as the control plane holds it: a weight, and either the alias flag
\* or the name of a revision
HeldEntry(traffic) ==
    /\ Has(traffic, "weight")
    /\ Has(traffic, "revisionName") # IsLatestAlias(traffic)

\* the container apps on which the invocations start: revisions app--old1, the
\* latest one, and app--old0
LiveResources ==
    ContainerAppsWith(
        ConfigurationsWith(
            IngressesWith(
                ListsUpTo({t \in TrafficWeights(DeactivateParameters) : HeldEntry(t)},
                          MaxTrafficLive))),
        DeactivateParameters)

StartOf(tp) ==
    [taskParams |-> tp, pc |-> "getApp", currentAppProperty |-> Undefined,
     containerAppEnvelope |-> Undefined, liveAtCall |-> Undefined]

\* the container app after beginUpdateAndWait with this envelope
Updated(app, envelope, ingressLeft) ==
    LET ingress ==
            IF Has(envelope.configuration, "ingress")
            THEN [ingress |-> envelope.configuration.ingress]
            ELSE IF ingressLeft /\ Has(app.configuration, "ingress")
                 THEN [ingress |-> app.configuration.ingress]
                 ELSE Undefined
    IN  [app EXCEPT
            !.configuration = ingress @@ [dapr |-> envelope.configuration.dapr],
            !.latestRevisionName =
                envelope.template.containers[1].name \o "--"
                    \o envelope.template.revisionSuffix]

\* all the traffic is given to one revision, by name
Rebalanced(app, revisionName) ==
    [app EXCEPT !.configuration.ingress.traffic =
        <<[revisionName |-> revisionName, latestRevision |-> FALSE, weight |-> 100]>>]

Idle ==
    /\ pc = "done"
    /\ taskParams = Undefined
    /\ processEnv = Undefined
    /\ prefix = ""
    /\ liveApp = Undefined
    /\ currentAppProperty = Undefined
    /\ traffics = Undefined
    /\ containerAppEnvelope = Undefined
    /\ revision = Undefined
    /\ log = <<>>

\* containerApps.get is served: the answer is the container app as it is now
GetAppServed(r) ==
    /\ invocations[r].pc = "getApp"
    /\ invocations' = [invocations EXCEPT ![r].currentAppProperty = resource,
                                          ![r].pc = "gotApp"]
    /\ UNCHANGED <<resource, resourceAtStart, rebalanced>>
    /\ UNCHANGED invocation

\* the continuation of main in deploy mode, on the answer of containerApps.get
DeployContinues(r) ==
    LET tp == invocations[r].taskParams
        app == invocations[r].currentAppProperty
    IN  /\ invocations[r].pc = "gotApp"
        /\ ~tp.deactivateRevisionMode
        /\ IF ~HasTrafficList(app)
           THEN invocations' = [invocations EXCEPT ![r].pc = "failed"]
           ELSE LET live == app.configuration.ingress.traffic
                    reconciled == Reconcile(live, app.latestRevisionName,
                                            ComposeRevisionName(tp))
                IN  invocations' =
                        [invocations EXCEPT
                            ![r].currentAppProperty =
                                [app EXCEPT !.configuration.ingress.traffic =
                                    FilteredInPlace(live, app.latestRevisionName)],
                            ![r].containerAppEnvelope =
                                ContainerAppEnvelope(app, reconciled, tp),
                            ![r].pc = "updateAppAndWait"]
        /\ UNCHANGED <<resource, resourceAtStart, rebalanced>>
        /\ UNCHANGED invocation

\* beginUpdateAndWait is served and the invocation ends
UpdateServed(r) ==
    /\ invocations[r].pc = "updateAppAndWait"
    /\ \E ingressLeft \in BOOLEAN :
          resource' = Updated(resource, invocations[r].containerAppEnvelope, ingressLeft)
    /\ invocations' = [invocations EXCEPT ![r].pc = "done"]
    /\ UNCHANGED <<resourceAtStart, rebalanced>>
    /\ UNCHANGED invocation

\* deactivateRevision is called whatever the traffic of the target
DeactivateContinues_Unchecked(r) ==
    LET tp == invocations[r].taskParams
    IN  /\ invocations[r].pc = "gotApp"
        /\ tp.deactivateRevisionMode
        /\ invocations' = [invocations EXCEPT ![r].pc = "deactivateRevision",
                                              ![r].liveAtCall = resource]
        /\ UNCHANGED <<resource, resourceAtStart, rebalanced>>
        /\ UNCHANGED invocation

\* the continuation of main in deactivate mode, on the answer of containerApps.get;
\* liveAtCall keeps the container app as it is when deactivateRevision is called
DeactivateContinues(r) ==
    LET tp == invocations[r].taskParams
        app == invocations[r].currentAppProperty
    IN  /\ invocations[r].pc = "gotApp"
        /\ tp.deactivateRevisionMode
        /\ IF CarriesTraffic(TargetRevisions(TrafficOrEmpty(app), ComposeRevisionName(tp)))
           THEN invocations' = [invocations EXCEPT ![r].pc = "failed"]
           ELSE invocations' = [invocations EXCEPT ![r].pc = "deactivateRevision",
                                                   ![r].liveAtCall = resource]
        /\ UNCHANGED <<resource, resourceAtStart, rebalanced>>
        /\ UNCHANGED invocation

\* deactivateRevision is served and the invocation ends
DeactivateServed(r) ==
    /\ invocations[r].pc = "deactivateRevision"
    /\ invocations' = [invocations EXCEPT ![r].pc = "done"]
    /\ UNCHANGED <<resource, resourceAtStart, rebalanced>>
    /\ UNCHANGED invocation

\* a writer that is not an invocation sets the traffic of the container app, once
Rebalance ==
    /\ ~rebalanced
    /\ HasTrafficList(resource)
    /\ \E revisionName \in {LatestRevisionNameOf(DeactivateParameters),
                            ComposeRevisionName(DeactivateParameters)} :
          resource' = Rebalanced(resource, revisionName)
    /\ rebalanced' = TRUE
    /\ UNCHANGED <<resourceAtStart, invocations>>
    /\ UNCHANGED invocation

\* deploy invocations only
DeployInit ==
    /\ Idle
    /\ resource \in LiveResources
    /\ resourceAtStart = resource
    /\ invocations = [r \in Invocations |-> StartOf(DeployParameters(r))]
    /\ rebalanced = FALSE

DeployNext ==
    \E r \in Invocations :
        \/ GetAppServed(r)
        \/ DeployContinues(r)
        \/ UpdateServed(r)

DeploySpec == DeployInit /\ [][DeployNext]_vars

\* one deactivate invocation, for app--old0, next to deploy invocations and to
\* the other writer
RaceInit ==
    /\ Idle
    /\ resource \in LiveResources
    /\ resourceAtStart = resource
    /\ invocations = [r \in Invocations |->
                         IF r = 1 THEN StartOf(DeactivateParameters)
                         ELSE StartOf(DeployParameters(r))]
    /\ rebalanced = FALSE

RaceNext ==
    \/ \E r \in Invocations :
          \/ GetAppServed(r)
          \/ DeployContinues(r)
          \/ UpdateServed(r)
          \/ DeactivateContinues(r)
          \/ DeactivateServed(r)
    \/ Rebalance

RaceSpec == RaceInit /\ [][RaceNext]_vars

----------------------------------------------------------------------------
(* Reading the log *)

Calls(op) == SelectSeq(log, LAMBDA e : e.op = op)

ControlPlaneCalls ==
    SelectSeq(log, LAMBDA e :
        e.op \in {"getApp", "updateAppAndWait", "getRevision", "deactivateRevision"})

Failures == Calls("setFailed")

Outputs == Calls("setOutput")

Positions(op) == {i \in 1..Len(log) : log[i].op = op}

RevisionName == ComposeRevisionName(taskParams)

DeployMode == ~taskParams.deactivateRevisionMode

DeactivateMode == taskParams.deactivateRevisionMode

AppRead == liveApp # Undefined

RevisionRead == revision # Undefined

\* the traffic list of the live resource, << >> when it has none
LiveTraffic ==
    IF Has(liveApp.configuration, "ingress") /\ Has(liveApp.configuration.ingress, "traffic")
    THEN liveApp.configuration.ingress.traffic
    ELSE <<>>

\* an unset weight weighs nothing
WeightOf(entry) == IF Has(entry, "weight") THEN entry.weight ELSE 0

RECURSIVE TotalWeight(_)
TotalWeight(list) ==
    IF list = <<>> THEN 0 ELSE WeightOf(Head(list)) + TotalWeight(Tail(list))

NameOf(entry) == IF Has(entry, "revisionName") THEN <<entry.revisionName>> ELSE <<>>

EntriesNaming(list, name) == SelectSeq(list, LAMBDA e : NameOf(e) = <<name>>)

----------------------------------------------------------------------------
(* C1 *)

\* C1: when parent + "--" + suffix is longer than 63 characters, in either mode,
\* no control-plane call is ever issued and the run ends with a failure signal;
\* when it has 63 characters or fewer, the length check does not fail.
C1_NameLengthChecked ==
    /\ Len(RevisionName) > 63 =>
          /\ ControlPlaneCalls = <<>>
          /\ pc = "done" => Len(Failures) = 1
    /\ Len(RevisionName) <= 63 =>
          \A i \in 1..Len(Failures) : Failures[i].error # InvalidConfiguration

C1_Witness_TooLong ==
    /\ pc = "done"
    /\ Len(RevisionName) = 64
    /\ Failures = <<SetFailed(InvalidConfiguration)>>

----------------------------------------------------------------------------
(* C2, C3, C4: deactivate mode *)

\* the total weight that the live traffic list gives to the target revision
TargetWeight == TotalWeight(EntriesNaming(LiveTraffic, RevisionName))

\* C2: in deactivate mode, when the weights of the live entries that name the
\* target revision sum to a nonzero value, the run fails with UnsafeDeactivation
\* and neither deactivateRevision nor getRevision is called.
C2_NoDeactivationUnderTraffic ==
    (DeactivateMode /\ AppRead /\ TargetWeight # 0) =>
        /\ pc = "done"
        /\ Failures = <<SetFailed(UnsafeDeactivation)>>
        /\ Calls("deactivateRevision") = <<>>
        /\ Calls("getRevision") = <<>>

C2_Witness_Refused ==
    /\ DeactivateMode
    /\ AppRead
    /\ Len(EntriesNaming(LiveTraffic, RevisionName)) = 2
    /\ TargetWeight = 100
    /\ Failures = <<SetFailed(UnsafeDeactivation)>>

\* C3: in deactivate mode, when the weights of the entries that name the target
\* revision sum to zero (no entry names it, or the live resource has no traffic
\* list or no ingress, included), the run issues exactly one deactivateRevision
\* call, for the target revision name.
C3_DeactivatesAtZeroWeight ==
    (DeactivateMode /\ AppRead /\ TargetWeight = 0) =>
        /\ Len(Calls("deactivateRevision")) = 1
        /\ Calls("deactivateRevision")[1].revisionName = RevisionName

\* C4: in deactivate mode the target revision is read back exactly once, after
\* the deactivate call has returned and never before it; a revision read back
\* with active = false ends the run with no failure signal, one read back with
\* active = true ends it with DeactivationNotConfirmed; nothing is called twice.
C4_DeactivationConfirmedOnce ==
    DeactivateMode =>
        /\ Len(Calls("deactivateRevision")) <= 1
        /\ Len(Calls("getRevision")) <= 1
        /\ \A g \in Positions("getRevision") :
              /\ log[g].revisionName = RevisionName
              /\ \E d \in Positions("deactivateRevision") : d < g
        /\ pc = "deactivateRevision" => Calls("getRevision") = <<>>
        /\ pc = "getDeactiveRevision" => Len(Calls("getRevision")) = 1
        /\ (pc = "done" /\ RevisionRead /\ revision # Null /\ Has(revision, "active")) =>
              /\ Len(Calls("getRevision")) = 1
              /\ revision.active = FALSE => Failures = <<>>
              /\ revision.active = TRUE => Failures = <<SetFailed(DeactivationNotConfirmed)>>

C4_Witness_NotConfirmed ==
    /\ DeactivateMode
    /\ pc = "done"
    /\ RevisionRead
    /\ revision # Null
    /\ Has(revision, "active")
    /\ revision.active = TRUE
    /\ Failures = <<SetFailed(DeactivationNotConfirmed)>>

----------------------------------------------------------------------------
(* C5, C6, C7, C8: the reconciled traffic list *)

Reconciled == DeployMode /\ traffics # Undefined

FlaggedLatest(entry) == Has(entry, "latestRevision") /\ entry.latestRevision = TRUE

\* the entries of the live list with a nonzero weight, in their order
NonZeroEntries == SelectSeq(LiveTraffic, LAMBDA e : WeightOf(e) # 0)

NewEntry == [revisionName |-> RevisionName, weight |-> 0, latestRevision |-> FALSE]

\* C5: the reconciled list is the live entries of nonzero weight, in their order
\* (entries of weight zero or unset are dropped), followed by one last entry for
\* the new revision with weight 0 and alias flag false; its total weight is the
\* total weight of the live list.
C5_ReconciledList ==
    Reconciled =>
        /\ Len(traffics) = Len(NonZeroEntries) + 1
        /\ \A i \in 1..Len(NonZeroEntries) :
              /\ WeightOf(traffics[i]) = WeightOf(NonZeroEntries[i])
              /\ ~FlaggedLatest(NonZeroEntries[i]) => traffics[i] = NonZeroEntries[i]
        /\ traffics[Len(traffics)] = NewEntry
        /\ TotalWeight(traffics) = TotalWeight(LiveTraffic)

C5_Witness_DroppedAndCarried ==
    /\ Reconciled
    /\ Len(LiveTraffic) = 2
    /\ ~Has(LiveTraffic[1], "weight")
    /\ WeightOf(LiveTraffic[2]) = 100
    /\ Len(traffics) = 2

\* C6: no entry of the reconciled list has the alias flag set; a carried-over
\* entry that had it names the latest revision of the same getApp snapshot, and
\* one that had not keeps its name; both keep their weight.
C6_AliasPinned ==
    Reconciled =>
        /\ \A i \in 1..Len(traffics) : ~FlaggedLatest(traffics[i])
        /\ \A i \in 1..Len(NonZeroEntries) :
              /\ i <= Len(traffics)
              /\ WeightOf(traffics[i]) = WeightOf(NonZeroEntries[i])
              /\ NameOf(traffics[i]) =
                    IF FlaggedLatest(NonZeroEntries[i])
                    THEN <<liveApp.latestRevisionName>>
                    ELSE NameOf(NonZeroEntries[i])

C6_Witness_AliasCarried ==
    /\ Reconciled
    /\ Len(LiveTraffic) = 2
    /\ FlaggedLatest(LiveTraffic[1])
    /\ NameOf(LiveTraffic[1]) = <<>>
    /\ WeightOf(LiveTraffic[1]) = 100
    /\ traffics[1].revisionName = liveApp.latestRevisionName

\* C7: no two entries of the reconciled list have the same revision name.
C7_NoDuplicateNames ==
    Reconciled =>
        \A i, j \in 1..Len(traffics) :
            (i # j /\ NameOf(traffics[i]) # <<>>) => NameOf(traffics[i]) # NameOf(traffics[j])

\* C8: in deploy mode a live traffic list that is empty or absent is taken as
\* empty: the update is submitted with a reconciled list of the new revision alone.
C8_AbsentTrafficIsEmpty ==
    (DeployMode /\ AppRead /\ LiveTraffic = <<>>) =>
        /\ traffics = <<NewEntry>>
        /\ Len(Calls("updateAppAndWait")) = 1

----------------------------------------------------------------------------
(* C9, C10: the envelope and the output *)

LiveExternal ==
    /\ Has(liveApp.configuration, "ingress")
    /\ Has(liveApp.configuration.ingress, "external")
    /\ liveApp.configuration.ingress.external = TRUE

\* C9: the submitted envelope has an ingress block exactly when the live ingress
\* is external; when it is not (false, unset, or no ingress) the update is still
\* submitted, without the block, no endpoint is emitted and a run whose calls
\* succeed ends without a failure signal.
C9_IngressOnlyIfExternal ==
    (DeployMode /\ AppRead) =>
        /\ \A i \in Positions("updateAppAndWait") :
              Has(log[i].envelope.configuration, "ingress") <=> LiveExternal
        /\ ~LiveExternal =>
              /\ Len(Calls("updateAppAndWait")) = 1
              /\ Outputs = <<>>
              /\ (pc = "done" /\ RevisionRead /\ revision # Null) => Failures = <<>>

\* C10: in deploy mode the new revision is read only after updateAppAndWait has
\* returned; a read that finds no revision ends the run with DeploymentFailed;
\* app-url is emitted exactly when the revision was read and found, the live
\* ingress is external and the revision's fqdn is not empty, and it is
\* "https://" + fqdn + "/".
C10_ReadAfterWriteAndOutput ==
    DeployMode =>
        /\ \A g \in Positions("getRevision") :
              /\ log[g].revisionName = RevisionName
              /\ \E u \in Positions("updateAppAndWait") : u < g
        /\ pc = "updateAppAndWait" => Calls("getRevision") = <<>>
        /\ (RevisionRead /\ revision = Null) =>
              pc = "done" /\ Failures = <<SetFailed(DeploymentFailed)>>
        /\ Outputs # <<>> <=>
              /\ RevisionRead
              /\ revision # Null
              /\ LiveExternal
              /\ Has(revision, "fqdn")
              /\ revision.fqdn # ""
        /\ Outputs # <<>> =>
              Outputs = <<[op |-> "setOutput", name |-> "app-url",
                           value |-> "https://" \o revision.fqdn \o "/"]>>

C10_Witness_UrlEmitted ==
    /\ DeployMode
    /\ pc = "done"
    /\ Calls("updateAppAndWait") # <<>>
    /\ RevisionRead
    /\ Outputs = <<SetOutput("https://app-abc1234.example.com/")>>
    /\ Failures = <<>>

----------------------------------------------------------------------------
(* C11: the end-to-end scenario *)

\* parent "app", suffix "abc1234", and a live resource with external ingress on
\* port 80 whose whole traffic is one latest-alias entry of weight 100
Scenario ==
    /\ DeployMode
    /\ taskParams.containerAppName = "app"
    /\ taskParams.revisionNameSuffix = "abc1234"
    /\ AppRead
    /\ liveApp.latestRevisionName = "app--old1"
    /\ LiveExternal
    /\ liveApp.configuration.ingress.targetPort = 80
    /\ LiveTraffic = <<[latestRevision |-> TRUE, weight |-> 100]>>

\* C11: in the scenario the submitted envelope has the traffic list
\* [app--old1 at 100, app--abc1234 at 0], both with the alias flag false, one
\* scale rule with concurrentRequests "50", one container named "app" with the
\* new image, and revisionSuffix "abc1234"; when the revision read back has fqdn
\* "app-abc1234.example.com" the output is https://app-abc1234.example.com/ and
\* no failure is signalled.
C11_EndToEnd ==
    Scenario =>
        /\ Len(Calls("updateAppAndWait")) = 1
        /\ LET envelope == Calls("updateAppAndWait")[1].envelope
           IN  /\ envelope.configuration.ingress.traffic =
                     <<[revisionName |-> "app--old1", latestRevision |-> FALSE, weight |-> 100],
                       [revisionName |-> "app--abc1234", latestRevision |-> FALSE, weight |-> 0]>>
               /\ Len(envelope.template.scale.rules) = 1
               /\ envelope.template.scale.rules[1].custom.metadata.concurrentRequests = "50"
               /\ envelope.template.containers =
                     <<[name |-> "app", image |-> taskParams.imageName]>>
               /\ envelope.template.revisionSuffix = "abc1234"
        /\ (RevisionRead /\ revision # Null /\ Has(revision, "fqdn")
                /\ revision.fqdn = "app-abc1234.example.com") =>
              /\ pc = "done"
              /\ Outputs = <<SetOutput("https://app-abc1234.example.com/")>>
              /\ Failures = <<>>

C11_Witness_ScenarioDone ==
    /\ Scenario
    /\ pc = "done"
    /\ RevisionRead
    /\ revision # Null
    /\ Has(revision, "fqdn")
    /\ revision.fqdn = "app-abc1234.example.com"
    /\ Outputs # <<>>

----------------------------------------------------------------------------
(* C12: building twice from one snapshot object *)

\* the reconciled list of a second pass over the snapshot object as the first
\* pass left it
SecondTraffics ==
    Reconcile(currentAppProperty.configuration.ingress.traffic,
              currentAppProperty.latestRevisionName, RevisionName)

SecondEnvelope == ContainerAppEnvelope(currentAppProperty, SecondTraffics, taskParams)

\* C12: reconciling and building the envelope a second time, from the snapshot
\* object whose alias entries the first pass rewrote in place and with the same
\* task parameters, gives the reconciled list and the envelope of the first pass.
C12_SecondBuildIdentical ==
    Reconciled =>
        /\ SecondTraffics = traffics
        /\ SecondEnvelope = containerAppEnvelope

C12_Witness_SnapshotRewritten ==
    /\ Reconciled
    /\ currentAppProperty # liveApp
    /\ LiveExternal
    /\ \E i \in 1..Len(LiveTraffic) :
          /\ FlaggedLatest(LiveTraffic[i])
          /\ WeightOf(LiveTraffic[i]) = 100
          /\ ~FlaggedLatest(currentAppProperty.configuration.ingress.traffic[i])
    /\ SecondEnvelope = containerAppEnvelope

----------------------------------------------------------------------------
(* C13: the two modes *)

\* C13: a run in deactivate mode never calls updateAppAndWait, builds no
\* envelope and emits no app-url; a run in deploy mode never calls
\* deactivateRevision; updateAppAndWait is the only call that carries a desired
\* state for the live resource, and it is issued at most once per run.
C13_ModesExclusive ==
    /\ DeactivateMode =>
          /\ Calls("updateAppAndWait") = <<>>
          /\ Outputs = <<>>
          /\ containerAppEnvelope = Undefined
          /\ traffics = Undefined
    /\ DeployMode => Calls("deactivateRevision") = <<>>
    /\ Len(Calls("updateAppAndWait")) <= 1
    /\ \A i \in 1..Len(log) : Has(log[i], "envelope") => log[i].op = "updateAppAndWait"

C13_Witness_DeactivateRunDone ==
    /\ DeactivateMode
    /\ pc = "done"
    /\ Len(Calls("deactivateRevision")) = 1
    /\ RevisionRead
    /\ Failures = <<>>

----------------------------------------------------------------------------
(* C14: the marker *)

\* the environment as it was when the module was loaded: main has not run yet
\* in the initial state, and prefix is "" exactly when the marker was unset
EnvBeforeRun ==
    IF prefix = "" THEN Undefined ELSE [AZURE_HTTP_USER_AGENT |-> prefix]

LastEvent == log[Len(log)]

\* C14 as claimed: at the end of every run the marker has the value it had
\* before the run, and the reset is the last effect of the run.
C14_ResetToValueBefore ==
    pc = "done" =>
        /\ processEnv = EnvBeforeRun
        /\ LastEvent = ExportVariable(prefix)

\* C14 as amended: every run ends; the marker is set at the start of the run
\* and is reset at its end, on every path, to the value read before the run,
\* which is the previous value, or the empty string when the marker was unset;
\* the reset is the last effect of the run.
C14_MarkerReset ==
    /\ [](pc = "main" => (processEnv = EnvBeforeRun /\ prefix = PrefixOf(processEnv)))
    /\ [][prefix' = prefix]_vars
    /\ [](pc \notin {"main", "done"} =>
             processEnv = [AZURE_HTTP_USER_AGENT |-> UserAgentString(prefix)])
    /\ [](pc = "done" =>
             /\ processEnv = [AZURE_HTTP_USER_AGENT |-> prefix]
             /\ LastEvent = ExportVariable(prefix)
             /\ Len(Calls("exportVariable")) = 2)
    /\ <>(pc = "done")

C14_Witness_UnsetBecomesEmpty ==
    /\ pc = "done"
    /\ prefix = ""
    /\ processEnv = [AZURE_HTTP_USER_AGENT |-> ""]
    /\ Failures = <<SetFailed(UnsafeDeactivation)>>

----------------------------------------------------------------------------
(* C15: the outcome of a run *)

\* C15: a run ends in success with no failure signal or with exactly one
\* failure signal; the failure is the last effect before the reset of the
\* marker, so no control-plane call follows it; an awaited call that rejects
\* is signalled with its own error; a run that signals failure emits no
\* app-url.
C15_SingleOutcome ==
    /\ [](/\ Len(Failures) <= 1
          /\ pc # "done" => Failures = <<>>
          /\ Failures # <<>> =>
                /\ Outputs = <<>>
                /\ Len(log) >= 2
                /\ log[Len(log) - 1] = Failures[1]
                /\ LastEvent = ExportVariable(prefix))
    /\ [][Rejects => Failures' = <<SetFailed(UpstreamError)>>]_vars
    /\ [][Failures' # <<>> => ControlPlaneCalls' = ControlPlaneCalls]_vars

C15_Witness_UpdateRejected ==
    /\ pc = "done"
    /\ Failures = <<SetFailed(UpstreamError)>>
    /\ Len(Calls("updateAppAndWait")) = 1
    /\ Calls("getRevision") = <<>>
    /\ Outputs = <<>>

----------------------------------------------------------------------------
(* C16: termination and the calls of a run *)

OpsOf(events) == [i \in 1..Len(events) |-> events[i].op]

IsPrefix(s, t) == Len(s) <= Len(t) /\ \A i \in 1..Len(s) : s[i] = t[i]

DeploySequence == <<"getApp", "updateAppAndWait", "getRevision">>

DeactivateSequence == <<"getApp", "deactivateRevision", "getRevision">>

\* C16: with every awaited call settling, every run ends; its control-plane
\* calls are a prefix of getApp, updateAppAndWait, getRevision or of getApp,
\* deactivateRevision, getRevision, so each call is issued at most once and in
\* that order; no call is issued once a failure is signalled.
C16_TerminatesBoundedCalls ==
    /\ [](\/ IsPrefix(OpsOf(ControlPlaneCalls), DeploySequence)
          \/ IsPrefix(OpsOf(ControlPlaneCalls), DeactivateSequence))
    /\ [][Failures # <<>> => ControlPlaneCalls' = ControlPlaneCalls]_vars
    /\ <>(pc = "done")

C16_Witness_AllThreeCalls ==
    /\ pc = "done"
    /\ OpsOf(ControlPlaneCalls) = DeactivateSequence
    /\ Failures = <<SetFailed(DeactivationNotConfirmed)>>

----------------------------------------------------------------------------
(* C17: the traffic across deploy invocations *)

\* the revision an entry routes to: the latest one for the alias
RoutesTo(entry, latestRevisionName) ==
    IF IsLatestAlias(entry) THEN <<latestRevisionName>> ELSE NameOf(entry)

\* the weight that the traffic of a container app routes to a revision
RoutedWeight(app, revisionName) ==
    TotalWeight(SelectSeq(TrafficOrEmpty(app),
                          LAMBDA e : RoutesTo(e, app.latestRevisionName) = <<revisionName>>))

PreExisting ==
    {LatestRevisionNameOf(DeactivateParameters), ComposeRevisionName(DeactivateParameters)}

Ended(r) == invocations[r].pc = "done"

NoneUnderWay == \A r \in Invocations : invocations[r].pc \in {"getApp", "done"}

Added == {ComposeRevisionName(invocations[r].taskParams) : r \in {q \in Invocations : Ended(q)}}

WeightsAsAtStart ==
    /\ \A n \in PreExisting : RoutedWeight(resource, n) = RoutedWeight(resourceAtStart, n)
    /\ \A n \in Added : RoutedWeight(resource, n) = 0

\* C17: when deploy invocations on one container app have ended, one after the
\* other or interleaved, and none is under way, every revision that existed
\* before them is routed the weight it was routed before them, and every
\* revision they added is routed weight 0.
C17_WeightsPreserved == NoneUnderWay => WeightsAsAtStart

\* the same for a container app whose ingress is external
ExternalAtStart ==
    /\ Has(resourceAtStart.configuration, "ingress")
    /\ Has(resourceAtStart.configuration.ingress, "external")
    /\ resourceAtStart.configuration.ingress.external

WeightsPreservedIfExternal == ExternalAtStart => WeightsAsAtStart

----------------------------------------------------------------------------
(* C18: the traffic of the target when deactivateRevision is called *)

Called(r) ==
    /\ invocations[r].taskParams.deactivateRevisionMode
    /\ invocations[r].pc \in {"deactivateRevision", "done"}

WeightIn(app, r) ==
    TotalWeight(EntriesNaming(TrafficOrEmpty(app),
                              ComposeRevisionName(invocations[r].taskParams)))

\* C18 as claimed: when an invocation calls deactivateRevision, the entries of
\* the container app's traffic at that moment that name the target weigh 0.
C18_ZeroLiveWeightAtCall ==
    \A r \in Invocations : Called(r) => WeightIn(invocations[r].liveAtCall, r) = 0

\* C18 as amended: when an invocation calls deactivateRevision, the entries
\* that name the target weigh 0 in the traffic that this invocation read with
\* getApp; they weigh 0 in the traffic at the moment of the call when that
\* traffic is still as it was read.
C18_ZeroWeightAsRead ==
    \A r \in Invocations :
        Called(r) =>
            /\ WeightIn(invocations[r].currentAppProperty, r) = 0
            /\ TrafficOrEmpty(invocations[r].liveAtCall)
                   = TrafficOrEmpty(invocations[r].currentAppProperty)
               => WeightIn(invocations[r].liveAtCall, r) = 0

C18_Witness_WrittenBetween ==
    \E r \in Invocations :
        /\ Called(r)
        /\ invocations[r].liveAtCall # invocations[r].currentAppProperty
        /\ WeightIn(invocations[r].currentAppProperty, r) = 0
        /\ WeightIn(invocations[r].liveAtCall, r) = 100

====
